---- MODULE Spec2Model ----
(***************************************************************************)
(* Query orchestration of vector_rag_poc: the /search, /rag-query,         *)
(* /documents and /health handlers of app.py and the ElasticsearchClient   *)
(* methods they call.                                                      *)
(*                                                                         *)
(* Scores are fixed-point numbers in thousandths (0.71 is 710); the        *)
(* hybrid weights are in tenths (0.3 is 3).  A text is a string of the     *)
(* family  x^n .^m  (n letters followed by m full stops), kept as the      *)
(* record [x |-> n, d |-> m]: the family is closed under the slicing and   *)
(* the "..." suffix the handlers apply, so the real cut-off lengths 500,   *)
(* 800 and 200 are used as they are.                                       *)
(***************************************************************************)
EXTENDS Integers, Sequences, FiniteSets, TLC

VARIABLES
    index,           \* the documents the backend's index holds
    added,           \* id -> the title and content POST /documents was
                     \* sent for it, of the documents added and not deleted
    modelDimension,  \* the length of the vectors the loaded model produces
    request,         \* the request being answered
    embedCalls,      \* the embedding calls that request made, in call order
    esCalls,         \* the backend calls that request made, in call order
    response,        \* the answer to that request
    workers          \* the requests being served side by side: for each
                     \* task, how far its handler has got and its locals

vars ==
    <<index, added, modelDimension, request, embedCalls, esCalls, response,
      workers>>

\* ------------------------------------------------------------------ bounds
MaxDocs == 3
MaxResultsBound == 2

\* ------------------------------------------------------------------- texts
Min(a, b) == IF a <= b THEN a ELSE b

StrLen(s) == s.x + s.d

\* s[:k]
StrTake(s, k) ==
    LET kx == Min(s.x, k)
    IN  [x |-> kx, d |-> Min(s.d, k - kx)]

\* s + "..."
AppendEllipsis(s) == [x |-> s.x, d |-> s.d + 3]

\* s + "" (the empty suffix)
AppendNothing(s) == s

\* s.endswith("...")
EndsWithEllipsis(s) == s.d >= 3

\* ------------------------------------------------------- embedding service
EmbeddingDimension == 384

Queries == {"q1", "q2"}

\* embedding_model.generate_embedding(text): the vector of a text, of the
\* model's dimension; its direction decides the similarities below.  The
\* queries are texts _preprocess_text leaves as they are (no surrounding or
\* repeated white space, at most 512 words).
generate_embedding(text) == [dim |-> modelDimension, dir |-> text]

\* f"{request.title} {request.content}", the text add_document embeds: the
\* texts are named after the direction of their vectors.
EmbeddedText ==
    [t1 |-> "e1", t2 |-> "e2", t3 |-> "e3", t4 |-> "e4",
     t5 |-> "e5", t6 |-> "e6", t7 |-> "e7", t8 |-> "e8"]

content_for_embedding(title, content) == EmbeddedText[title]

\* The dimensions of the models EMBEDDING_MODEL may name: the configured
\* one and another.
ModelDimensions == {EmbeddingDimension, 2 * EmbeddingDimension}

\* ------------------------------------------------------------------ backend
\* The documents the index may hold.
Doc1 ==
    [id |-> "d1", title |-> "t1", content |-> [x |-> 501, d |-> 0],
     category |-> "ai", tags |-> {"ml"},
     embedding |-> [dim |-> EmbeddingDimension, dir |-> "e1"]]
Doc2 ==
    [id |-> "d2", title |-> "t2", content |-> [x |-> 4, d |-> 3],
     category |-> "ai", tags |-> {"ml", "nlp"},
     embedding |-> [dim |-> EmbeddingDimension, dir |-> "e2"]]
Doc3 ==
    [id |-> "d3", title |-> "t3", content |-> [x |-> 801, d |-> 0],
     category |-> "db", tags |-> {"nlp"},
     embedding |-> [dim |-> EmbeddingDimension, dir |-> "e3"]]
Doc4 ==
    [id |-> "d4", title |-> "t4", content |-> [x |-> 200, d |-> 0],
     category |-> "db", tags |-> {"ml"},
     embedding |-> [dim |-> EmbeddingDimension, dir |-> "e4"]]
Doc5 ==
    [id |-> "d5", title |-> "t5", content |-> [x |-> 498, d |-> 3],
     category |-> "ai", tags |-> {},
     embedding |-> [dim |-> EmbeddingDimension, dir |-> "e5"]]
Doc6 ==
    [id |-> "d6", title |-> "t6", content |-> [x |-> 199, d |-> 2],
     category |-> "db", tags |-> {"nlp"},
     embedding |-> [dim |-> EmbeddingDimension, dir |-> "e6"]]
Doc7 ==
    [id |-> "d7", title |-> "t7", content |-> [x |-> 500, d |-> 0],
     category |-> "ai", tags |-> {"nlp"},
     embedding |-> [dim |-> EmbeddingDimension, dir |-> "e7"]]
Doc8 ==
    [id |-> "d8", title |-> "t8", content |-> [x |-> 800, d |-> 0],
     category |-> "db", tags |-> {"ml", "nlp"},
     embedding |-> [dim |-> EmbeddingDimension, dir |-> "e8"]]

DocUniverse == {Doc1, Doc2, Doc3, Doc4, Doc5, Doc6, Doc7, Doc8}

\* An index of five documents that "q1" scores 0.9, 0.8, 0.7, 0.6 and 0.5.
ExampleIndex == {Doc1, Doc2, Doc3, Doc7, Doc6}

\* cosineSimilarity(query vector, document vector), in thousandths.
CosineTable ==
    [q1 |-> [e1 |-> 800, e2 |-> 600, e3 |-> 400, e4 |-> 440,
             e5 |-> 1000, e6 |-> 0, e7 |-> 200, e8 |-> 100],
     q2 |-> [e1 |-> 420, e2 |-> 1000, e3 |-> 800, e4 |-> 0,
             e5 |-> 200, e6 |-> 600, e7 |-> 440, e8 |-> 400]]

cosineSimilarity(qv, dv) == CosineTable[qv.dir][dv.dir]

\* The backend's relevance score of the multi_match sub-query on
\* title^2 and content, before the boost, in thousandths (0: no match).
LexicalTable ==
    [q1 |-> [d1 |-> 500, d2 |-> 0, d3 |-> 1200, d4 |-> 300,
             d5 |-> 0, d6 |-> 100, d7 |-> 2000, d8 |-> 50],
     q2 |-> [d1 |-> 0, d2 |-> 700, d3 |-> 500, d4 |-> 900,
             d5 |-> 100, d6 |-> 0, d7 |-> 40, d8 |-> 1400]]

lexicalScore(text, doc) == LexicalTable[text][doc.id]

\* The _source fields both searches ask for: the embedding is not among them.
SourceFields == {"id", "title", "content", "category", "tags"}

Source(doc) == [f \in SourceFields |-> doc[f]]

\* Whether a document satisfies a filter predicate (keyword fields: a term
\* matches the field's value, or one of its values when the field is an array).
FieldValues(doc, field) ==
    IF field = "tags" THEN doc.tags ELSE {doc[field]}

RECURSIVE Matches(_, _)
Matches(pred, doc) ==
    CASE pred.kind = "term" ->
            pred.value.items[1] \in FieldValues(doc, pred.field)
      [] pred.kind = "terms" ->
            \E i \in 1..Len(pred.value.items) :
                pred.value.items[i] \in FieldValues(doc, pred.field)
      [] pred.kind = "bool_must" ->
            \A i \in 1..Len(pred.must) : Matches(pred.must[i], doc)

\* Hits in descending score order (ties: in the index's document order).
DocOrder ==
    [d1 |-> 1, d2 |-> 2, d3 |-> 3, d4 |-> 4, d5 |-> 5, d6 |-> 6, d7 |-> 7, d8 |-> 8]

Before(a, b) ==
    \/ a._score > b._score
    \/ a._score = b._score /\ DocOrder[a._id] < DocOrder[b._id]

RECURSIVE SortDesc(_)
SortDesc(hits) ==
    IF hits = {} THEN <<>>
    ELSE LET top == CHOOSE h \in hits : \A g \in hits \ {h} : Before(h, g)
         IN  <<top>> \o SortDesc(hits \ {top})

Take(seq, n) == SubSeq(seq, 1, Min(Len(seq), n))

\* A dense_vector field with "similarity": "cosine" scores a kNN hit
\* (1 + cosine) / 2.
KnnScore(qv, doc) == (1000 + cosineSimilarity(qv, doc.embedding)) \div 2

\* The documents a kNN request considers: those passing the pre-filter,
\* nearest first, num_candidates of them.
KnnCandidates(idx, knn) ==
    LET pass == {d \in idx : "filter" \in DOMAIN knn => Matches(knn.filter, d)}
        hits == {[_id |-> d.id, _score |-> KnnScore(knn.query_vector, d),
                  _source |-> Source(d)] : d \in pass}
    IN  Take(SortDesc(hits), knn.num_candidates)

\* client.search(index, body = {"knn": ...}, size): the k nearest of the
\* candidates, at most size of them.
KnnSearch(idx, body, size) ==
    Take(KnnCandidates(idx, body.knn), Min(body.knn.k, size))

\* The score of a bool/should of a multi_match with a boost and a
\* script_score over match_all: the sum of the two clauses' scores.
CombinedScore(should, doc) ==
    (should[1].multi_match.boost
        * lexicalScore(should[1].multi_match.query, doc)
     + should[2].script_score.vector_weight
        * cosineSimilarity(should[2].script_score.query_vector, doc.embedding))
    \div 10

\* client.search(index, body = {"query": ..., "min_score": ...}, size): every
\* document matches the match_all clause; those scoring below min_score are
\* left out, the rest come best first, at most size of them.
QuerySearch(idx, body, size) ==
    LET hits == {[_id |-> d.id,
                  _score |-> CombinedScore(body.query.bool.should, d),
                  _source |-> Source(d)] : d \in idx}
        kept == {h \in hits : h._score >= body.min_score}
    IN  Take(SortDesc(kept), size)

\* A term clause whose value is an object is one the backend cannot parse.
RECURSIVE Malformed(_)
Malformed(pred) ==
    CASE pred.kind = "term" -> "isDict" \in DOMAIN pred.value
      [] pred.kind = "terms" -> FALSE
      [] pred.kind = "bool_must" ->
            \E i \in 1..Len(pred.must) : Malformed(pred.must[i])

\* Whether the backend answers a search with an error of its own: a kNN
\* query vector that is not of the mapping's dims or a filter it cannot
\* parse; a script whose query vector is not of the length of the
\* document vectors it is run on.
SearchRejected(idx, body) ==
    IF "knn" \in DOMAIN body
    THEN \/ body.knn.query_vector.dim /= EmbeddingDimension
         \/ ("filter" \in DOMAIN body.knn /\ Malformed(body.knn.filter))
    ELSE /\ idx /= {}
         /\ body.query.bool.should[2].script_score.query_vector.dim
                /= EmbeddingDimension

\* Whether the backend refuses to index a document: its embedding is not
\* of the mapping's dims.
IndexRejected(document) == document.embedding.dim /= EmbeddingDimension

DocIds(idx) == {d.id : d \in idx}

\* ------------------------------------------------- ElasticsearchClient
\* A filter map is the sequence of its entries in iteration (insertion)
\* order; a value is a list (isList), a scalar (items holds it alone) or,
\* filters being Dict[str, Any], anything else JSON has, such as an object.
Scalar(v) == [isList |-> FALSE, items |-> <<v>>]
List(vs) == [isList |-> TRUE, items |-> vs]
Nested(v) == [isList |-> FALSE, isDict |-> TRUE, items |-> <<v>>]

\* A slip: the isinstance(value, list) test lost.
FilterClause_NoListTest(entry) ==
    [kind |-> "term", field |-> entry.field, value |-> entry.value]

\* One clause of _build_filters' loop.
FilterClause(entry) ==
    IF entry.value.isList
    THEN [kind |-> "terms", field |-> entry.field, value |-> entry.value]
    ELSE [kind |-> "term", field |-> entry.field, value |-> entry.value]

_build_filters(filters) ==
    LET filter_clauses == [i \in 1..Len(filters) |-> FilterClause(filters[i])]
    IN  IF Len(filter_clauses) = 1
        THEN filter_clauses[1]
        ELSE [kind |-> "bool_must", must |-> filter_clauses]

\* A slip: "if filters is not None" in place of "if filters".
Truthy_NotNone(filters) == filters.present

\* Python's truth value of an Optional[Dict]: None and {} are false.
Truthy(filters) == filters.present /\ Len(filters.entries) > 0

\* A slip: the candidates not over-fetched.
KnnQuery_NoOverfetch(query_embedding, max_results, filters) ==
    LET knn == [field |-> "embedding", query_vector |-> query_embedding,
                k |-> max_results, num_candidates |-> max_results]
    IN  [knn |-> IF Truthy(filters)
                 THEN knn @@ [filter |-> _build_filters(filters.entries)]
                 ELSE knn,
         _source |-> SourceFields]

\* The request body of vector_search.
KnnQuery(query_embedding, max_results, filters) ==
    LET knn == [field |-> "embedding", query_vector |-> query_embedding,
                k |-> max_results, num_candidates |-> max_results * 2]
    IN  [knn |-> IF Truthy(filters)
                 THEN knn @@ [filter |-> _build_filters(filters.entries)]
                 ELSE knn,
         _source |-> SourceFields]

\* A result: the hit's _source with its score.
Result(hit) == hit._source @@ [score |-> hit._score]

ResultsOf(hits) == [i \in 1..Len(hits) |-> Result(hits[i])]

\* A slip: ">" for ">=".
ScoreFilter_Strict(hits, min_score) ==
    ResultsOf(SelectSeq(hits, LAMBDA hit : hit._score > min_score))

\* The loop over the hits of vector_search.
ScoreFilter(hits, min_score) ==
    ResultsOf(SelectSeq(hits, LAMBDA hit : hit._score >= min_score))

vector_search(idx, query_embedding, max_results, min_score, filters) ==
    LET body == KnnQuery(query_embedding, max_results, filters)
        hits == KnnSearch(idx, body, max_results)
    IN  [body |-> body, size |-> max_results, hits |-> hits,
         results |-> ScoreFilter(hits, min_score)]

\* A slip: the two weights exchanged.
HybridQuery_WeightsSwapped(query_text, query_embedding, min_score, text_weight, vector_weight) ==
    [query |-> [bool |-> [should |->
        << [multi_match |-> [query |-> query_text,
                             fields |-> <<"title^2", "content">>,
                             boost |-> vector_weight]],
           [script_score |-> [query |-> "match_all",
                              vector_weight |-> text_weight,
                              query_vector |-> query_embedding]] >>]],
     min_score |-> min_score,
     _source |-> SourceFields]

\* The request body of hybrid_search.
HybridQuery(query_text, query_embedding, min_score, text_weight, vector_weight) ==
    [query |-> [bool |-> [should |->
        << [multi_match |-> [query |-> query_text,
                             fields |-> <<"title^2", "content">>,
                             boost |-> text_weight]],
           [script_score |-> [query |-> "match_all",
                              vector_weight |-> vector_weight,
                              query_vector |-> query_embedding]] >>]],
     min_score |-> min_score,
     _source |-> SourceFields]

\* A slip: the size over-fetched as num_candidates is.
hybrid_search_DoubleSize(idx, query_text, query_embedding, max_results, min_score, text_weight, vector_weight) ==
    LET body == HybridQuery(query_text, query_embedding, min_score,
                            text_weight, vector_weight)
        hits == QuerySearch(idx, body, max_results * 2)
    IN  [body |-> body, size |-> max_results * 2, hits |-> hits,
         results |-> ResultsOf(hits)]

hybrid_search(idx, query_text, query_embedding, max_results, min_score, text_weight, vector_weight) ==
    LET body == HybridQuery(query_text, query_embedding, min_score,
                            text_weight, vector_weight)
        hits == QuerySearch(idx, body, max_results)
    IN  [body |-> body, size |-> max_results, hits |-> hits,
         results |-> ResultsOf(hits)]

\* A slip: the index call answered without the document being stored.
index_document_Unstored(idx, document) == idx

\* A slip: the document indexed without the content it was sent with.
index_document_NoContent(idx, document) ==
    {d \in idx : d.id /= document.id}
        \cup {[document EXCEPT !.content = [x |-> 0, d |-> 0]]}

\* client.index(index, id=document.get('id'), body=document): the index
\* afterwards.
index_document(idx, document) ==
    {d \in idx : d.id /= document.id} \cup {document}

\* What the backend does with a get or a delete by id: it cannot be
\* reached, it has no such document (NotFoundError), or it serves it.
ByIdAnswer(idx, doc_id, fault) ==
    IF fault = "backend" THEN "unavailable"
    ELSE IF doc_id \notin DocIds(idx) THEN "not_found"
    ELSE "ok"

None == [none |-> TRUE]

\* A slip: NotFoundError not caught apart from the other exceptions.
es_get_document_Raises(idx, doc_id, fault) ==
    LET answer == ByIdAnswer(idx, doc_id, fault)
    IN  IF answer = "ok"
        THEN [raised |-> FALSE, document |-> CHOOSE d \in idx : d.id = doc_id]
        ELSE [raised |-> TRUE]

\* ElasticsearchClient.get_document: the _source, None on NotFoundError;
\* any other exception is raised again.
es_get_document(idx, doc_id, fault) ==
    LET answer == ByIdAnswer(idx, doc_id, fault)
    IN  IF answer = "unavailable" THEN [raised |-> TRUE]
        ELSE IF answer = "not_found" THEN [raised |-> FALSE, document |-> None]
        ELSE [raised |-> FALSE, document |-> CHOOSE d \in idx : d.id = doc_id]

\* A slip: False returned for every exception.
es_delete_document_CatchAll(idx, doc_id, fault) ==
    LET answer == ByIdAnswer(idx, doc_id, fault)
    IN  IF answer = "ok"
        THEN [raised |-> FALSE, success |-> TRUE,
              index |-> {d \in idx : d.id /= doc_id}]
        ELSE [raised |-> FALSE, success |-> FALSE, index |-> idx]

\* ElasticsearchClient.delete_document: True and the index afterwards, False
\* on NotFoundError; any other exception is raised again.
es_delete_document(idx, doc_id, fault) ==
    LET answer == ByIdAnswer(idx, doc_id, fault)
    IN  IF answer = "unavailable" THEN [raised |-> TRUE, index |-> idx]
        ELSE IF answer = "not_found"
        THEN [raised |-> FALSE, success |-> FALSE, index |-> idx]
        ELSE [raised |-> FALSE, success |-> TRUE,
              index |-> {d \in idx : d.id /= doc_id}]

\* A slip: the exception of the health calls raised again.
es_health_check_Raises(fault) ==
    IF fault = "backend"
    THEN [raised |-> TRUE]
    ELSE [raised |-> FALSE,
          health |-> [elasticsearch_ping |-> TRUE, cluster_status |-> "green"]]

\* ElasticsearchClient.health_check: the cluster's health and ping, or the
\* map of the error when a call raises.
es_health_check(fault) ==
    IF fault = "backend"
    THEN [raised |-> FALSE, health |-> [error |-> "backend"]]
    ELSE [raised |-> FALSE,
          health |-> [elasticsearch_ping |-> TRUE, cluster_status |-> "green"]]

\* The defaults of hybrid_search's weights, in tenths.
TextWeight == 3
VectorWeight == 7

\* ----------------------------------------------------------------- app
\* A slip: ">=" for ">".
TruncateContent_Ge(content) ==
    IF StrLen(content) >= 500
    THEN AppendEllipsis(StrTake(content, 500))
    ELSE content

\* result['content'][:500] + "..." if len(result['content']) > 500
\* else result['content']
TruncateContent(content) ==
    IF StrLen(content) > 500
    THEN AppendEllipsis(StrTake(content, 500))
    ELSE content

SearchResult(result) ==
    [id |-> result.id, title |-> result.title,
     content |-> TruncateContent(result.content),
     category |-> result.category, tags |-> result.tags,
     score |-> result.score]

\* A slip: the results formatted last first.
FormatResults_Reversed(results) ==
    [i \in 1..Len(results) |-> SearchResult(results[Len(results) + 1 - i])]

\* The loop that builds formatted_results, one SearchResult per result.
FormatResults(results) == [i \in 1..Len(results) |-> SearchResult(results[i])]

\* A slip: the hybrid search run over the documents the filters admit.
SearchWith_HybridFiltered(idx, req, query_embedding) ==
    IF req.search_type = "vector"
    THEN vector_search(idx, query_embedding, req.max_results,
                       req.min_score, req.filters)
    ELSE IF req.search_type = "hybrid"
    THEN hybrid_search({d \in idx : Truthy(req.filters) =>
                            Matches(_build_filters(req.filters.entries), d)},
                       req.query, query_embedding,
                       req.max_results, req.min_score, TextWeight, VectorWeight)
    ELSE vector_search(idx, query_embedding, req.max_results,
                       req.min_score, req.filters)

\* A slip: the "text" branch sent to the hybrid search.
SearchWith_TextAsHybrid(idx, req, query_embedding) ==
    IF req.search_type = "vector"
    THEN vector_search(idx, query_embedding, req.max_results,
                       req.min_score, req.filters)
    ELSE hybrid_search(idx, req.query, query_embedding,
                       req.max_results, req.min_score, TextWeight, VectorWeight)

\* The search the handler runs for a search_type with the embedding it
\* has of the query.
SearchWith(idx, req, query_embedding) ==
    IF req.search_type = "vector"
    THEN vector_search(idx, query_embedding, req.max_results,
                       req.min_score, req.filters)
    ELSE IF req.search_type = "hybrid"
    THEN hybrid_search(idx, req.query, query_embedding,
                       req.max_results, req.min_score, TextWeight, VectorWeight)
    ELSE vector_search(idx, query_embedding, req.max_results,
                       req.min_score, req.filters)

\* The search the handler runs for a search_type.
SearchByType(idx, req) ==
    SearchWith(idx, req, generate_embedding(req.query))

\* A slip: ">=" for ">".
ContextText_Ge(content) ==
    IF StrLen(content) >= 800
    THEN AppendEllipsis(StrTake(content, 800))
    ELSE AppendNothing(StrTake(content, 800))

\* f"Context {i}: [{title}]\n{content[:800]}{'...' if len(content) > 800 else ''}":
\* the header's fields and the text after the line break.
ContextText(content) ==
    IF StrLen(content) > 800
    THEN AppendEllipsis(StrTake(content, 800))
    ELSE AppendNothing(StrTake(content, 800))

\* A slip: enumerate(context_docs) without its start of 1.
ContextSection_FromZero(i, doc) ==
    [i |-> i - 1, title |-> doc.title, text |-> ContextText(doc.content)]

\* f"Context {i}: [{doc['title']}]\n{...}"
ContextSection(i, doc) ==
    [i |-> i, title |-> doc.title, text |-> ContextText(doc.content)]

\* A slip: ">=" for ">".
Excerpt_Ge(content) ==
    IF StrLen(content) >= 200
    THEN AppendEllipsis(StrTake(content, 200))
    ELSE content

\* doc['content'][:200] + "..." if len(doc['content']) > 200 else doc['content']
Excerpt(content) ==
    IF StrLen(content) > 200
    THEN AppendEllipsis(StrTake(content, 200))
    ELSE content

Citation(doc) ==
    [id |-> doc.id, title |-> doc.title, category |-> doc.category,
     score |-> doc.score, excerpt |-> Excerpt(doc.content)]

Preamble ==
    "Based on the following context, please answer the query. Use the provided information to give accurate and contextual responses.\n\n"

Closing ==
    "\n\nInstructions: Please provide a comprehensive answer based on the context above. If the context doesn't contain sufficient information to answer the query, please indicate what additional information would be needed."

NoContextNote == "\n\nNote: No relevant context found in the knowledge base."

\* A slip: the "if not context_docs" branch lost.
EnhancedPrompt_NoEmptyBranch(query, context_docs) ==
    << [lit |-> Preamble],
       [sections |-> [i \in 1..Len(context_docs) |->
                         ContextSection(i, context_docs[i])],
        sep |-> "\n\n"],
       [lit |-> "\n\nQuery: "], [lit |-> query], [lit |-> Closing] >>

\* The prompt as the sequence of its pieces: literals, and the context
\* sections joined by a blank line.
EnhancedPrompt(query, context_docs) ==
    IF Len(context_docs) = 0
    THEN << [lit |-> "Query: "], [lit |-> query], [lit |-> NoContextNote] >>
    ELSE << [lit |-> Preamble],
            [sections |-> [i \in 1..Len(context_docs) |->
                              ContextSection(i, context_docs[i])],
             sep |-> "\n\n"],
            [lit |-> "\n\nQuery: "], [lit |-> query], [lit |-> Closing] >>

\* A slip: the citations made whatever include_sources says.
ContextSources_Always(context_docs, include_sources) ==
    [i \in 1..Len(context_docs) |-> Citation(context_docs[i])]

\* The loop that builds context_sources.
ContextSources(context_docs, include_sources) ==
    IF Len(context_docs) = 0
    THEN <<>>
    ELSE IF include_sources
    THEN [i \in 1..Len(context_docs) |-> Citation(context_docs[i])]
    ELSE <<>>

\* --------------------------------------------------------------- requests
MinScores == {0, 700, 720}

NoFilters == [present |-> FALSE, entries |-> <<>>]

FilterEntries ==
    { [field |-> "category", value |-> Scalar("ai")],
      [field |-> "tags", value |-> List(<<"ml", "nlp">>)] }

\* The filter maps of up to two fields, in each insertion order.
FilterMaps ==
    {NoFilters, [present |-> TRUE, entries |-> <<>>]}
    \cup {[present |-> TRUE, entries |-> <<e>>] : e \in FilterEntries}
    \cup {[present |-> TRUE, entries |-> <<e, f>>] :
            <<e, f>> \in {p \in FilterEntries \X FilterEntries :
                            p[1].field /= p[2].field}}

SearchTypes == {"vector", "text", "hybrid"}

\* The default of max_results, and the small values around the index's size.
DefaultMaxResults == 10

MaxResultsValues == 1..MaxResultsBound \cup {DefaultMaxResults}

\* Filter maps with a value that is neither a scalar nor a list of scalars.
MalformedFilterMaps ==
    {[present |-> TRUE,
      entries |-> <<[field |-> "category", value |-> Nested("ai")]>>],
     [present |-> TRUE,
      entries |-> <<[field |-> "tags", value |-> List(<<"ml", "nlp">>)],
                    [field |-> "category", value |-> Nested("ai")]>>]}

\* The bodies POST /search is sent: those within the Field bounds, and some
\* with max_results, min_score or a filter value out of the ordinary.
SearchRequests ==
    [endpoint : {"search"}, query : Queries, max_results : MaxResultsValues,
     min_score : MinScores, filters : FilterMaps, search_type : SearchTypes]
    \cup [endpoint : {"search"}, query : {"q1"}, max_results : {5},
          min_score : {0}, filters : {NoFilters}, search_type : SearchTypes]
    \cup [endpoint : {"search"}, query : {"q1"}, max_results : {0, 1, 101},
          min_score : {-1, 0, 1500}, filters : {NoFilters},
          search_type : SearchTypes]
    \cup [endpoint : {"search"}, query : {"q1"}, max_results : {1},
          min_score : {0}, filters : MalformedFilterMaps,
          search_type : SearchTypes]
    \cup [endpoint : {"search"}, query : Queries,
          max_results : 1..MaxResultsBound, min_score : {0, 700},
          filters : FilterMaps, search_type : {"fuzzy"}]

RAGRequests ==
    [endpoint : {"rag"}, query : Queries, max_context : 1..MaxResultsBound,
     include_sources : BOOLEAN, min_score : MinScores]
    \cup [endpoint : {"rag"}, query : {"q1"}, max_context : {0, 1, 11},
          include_sources : {TRUE}, min_score : {-1, 0, 1500}]

\* A slip: search_type declared as one of the three names.
ValidSearchRequest_KnownTypes(req) ==
    /\ req.max_results >= 1 /\ req.max_results <= 100
    /\ req.min_score >= 0 /\ req.min_score <= 1000
    /\ req.search_type \in SearchTypes

\* SearchRequest's Field bounds: max_results ge=1 le=100, min_score ge=0.0
\* le=1.0; filters is Dict[str, Any] and search_type str, both unchecked.
ValidSearchRequest(req) ==
    /\ req.max_results >= 1 /\ req.max_results <= 100
    /\ req.min_score >= 0 /\ req.min_score <= 1000

\* RAGRequest's Field bounds: max_context ge=1 le=10, min_score ge=0.0 le=1.0.
ValidRAGRequest(req) ==
    /\ req.max_context >= 1 /\ req.max_context <= 10
    /\ req.min_score >= 0 /\ req.min_score <= 1000

\* FastAPI's answer to a body the request model refuses.
Unprocessable == [status |-> 422]

\* What goes wrong with a request: nothing, the embedding call raises, or
\* the backend cannot be reached.
Faults == {"none", "embedding", "backend"}

\* The exception of a backend search: of the connection, or of the
\* backend's own refusal of the body.
SearchError(idx, body, fault) ==
    IF fault = "backend" THEN "backend"
    ELSE IF SearchRejected(idx, body) THEN "bad_request"
    ELSE "none"

\* A slip: the exception swallowed and an empty list answered.
Failure_Swallowed(prefix, cause) ==
    [status |-> 200, body |-> [total_results |-> 0, results |-> <<>>]]

\* raise HTTPException(status_code=500, detail=f"{prefix}{str(e)}")
Failure(prefix, cause) ==
    [status |-> 500, detail |-> <<prefix, cause>>]

\* A slip: a search that raised tried a second time.
EmbedThenSearch_Retry(idx, query, r, fault, prefix, answer) ==
    LET call == [op |-> "search", body |-> r.body, size |-> r.size]
    IN  IF fault = "embedding"
        THEN [embedCalls |-> <<[text |-> query, raised |-> TRUE]>>,
              esCalls |-> <<>>,
              response |-> Failure(prefix, "embedding")]
        ELSE IF SearchError(idx, r.body, fault) /= "none"
        THEN [embedCalls |-> <<[text |-> query, raised |-> FALSE]>>,
              esCalls |-> <<call @@ [raised |-> TRUE], call @@ [raised |-> TRUE]>>,
              response |-> Failure(prefix, SearchError(idx, r.body, fault))]
        ELSE [embedCalls |-> <<[text |-> query, raised |-> FALSE]>>,
              esCalls |-> <<call @@ [raised |-> FALSE, hits |-> r.hits]>>,
              response |-> [status |-> 200, body |-> answer]]

\* The calls of a handler that embeds the query and runs one search r, and
\* its failure response when one of the two raises.
EmbedThenSearch(idx, query, r, fault, prefix, answer) ==
    IF fault = "embedding"
    THEN [embedCalls |-> <<[text |-> query, raised |-> TRUE]>>,
          esCalls |-> <<>>,
          response |-> Failure(prefix, "embedding")]
    ELSE IF SearchError(idx, r.body, fault) /= "none"
    THEN [embedCalls |-> <<[text |-> query, raised |-> FALSE]>>,
          esCalls |-> <<[op |-> "search", body |-> r.body, size |-> r.size,
                         raised |-> TRUE]>>,
          response |-> Failure(prefix, SearchError(idx, r.body, fault))]
    ELSE [embedCalls |-> <<[text |-> query, raised |-> FALSE]>>,
          esCalls |-> <<[op |-> "search", body |-> r.body, size |-> r.size,
                         raised |-> FALSE, hits |-> r.hits]>>,
          response |-> [status |-> 200, body |-> answer]]

\* POST /search: the calls made and the response.
SearchOutcome(idx, req, fault) ==
    IF ~ValidSearchRequest(req)
    THEN [embedCalls |-> <<>>, esCalls |-> <<>>, response |-> Unprocessable]
    ELSE LET r == SearchByType(idx, req)
         IN  EmbedThenSearch(idx, req.query, r, fault, "Search failed: ",
                 [query |-> req.query,
                  total_results |-> Len(r.results),
                  search_type |-> req.search_type,
                  results |-> FormatResults(r.results)])

\* POST /rag-query: the calls made and the response.
RAGOutcome(idx, req, fault) ==
    IF ~ValidRAGRequest(req)
    THEN [embedCalls |-> <<>>, esCalls |-> <<>>, response |-> Unprocessable]
    ELSE LET r == vector_search(idx, generate_embedding(req.query),
                                req.max_context, req.min_score, NoFilters)
         IN  EmbedThenSearch(idx, req.query, r, fault, "RAG query failed: ",
                 [original_query |-> req.query,
                  enhanced_prompt |-> EnhancedPrompt(req.query, r.results),
                  context_sources |->
                      ContextSources(r.results, req.include_sources)])

\* The body of POST /documents that has a document's fields.
DocumentRequest(doc) ==
    [endpoint |-> "add", title |-> doc.title, content |-> doc.content,
     category |-> doc.category, tags |-> doc.tags]

\* The ids GET and DELETE /documents/{doc_id} are sent.
RequestedIds == {d.id : d \in DocUniverse} \cup {"nonexistent-id"}

BackendFaults == {"none", "backend"}

NotFound == [status |-> 404, detail |-> <<"Document not found">>]

\* POST /documents with doc_id the uuid4 drawn: the calls made, the
\* response and the index afterwards.
AddOutcome(idx, req, doc_id, fault) ==
    LET text == content_for_embedding(req.title, req.content)
        document == [id |-> doc_id, title |-> req.title,
                     content |-> req.content, category |-> req.category,
                     tags |-> req.tags, embedding |-> generate_embedding(text)]
        error == IF fault = "backend" THEN "backend"
                 ELSE IF IndexRejected(document) THEN "bad_request"
                 ELSE "none"
    IN  IF fault = "embedding"
        THEN [embedCalls |-> <<[text |-> text, raised |-> TRUE]>>,
              esCalls |-> <<>>,
              response |-> Failure("Failed to add document: ", "embedding"),
              index |-> idx]
        ELSE IF error /= "none"
        THEN [embedCalls |-> <<[text |-> text, raised |-> FALSE]>>,
              esCalls |-> <<[op |-> "index", id |-> doc_id,
                             document |-> document, raised |-> TRUE]>>,
              response |-> Failure("Failed to add document: ", error),
              index |-> idx]
        ELSE [embedCalls |-> <<[text |-> text, raised |-> FALSE]>>,
              esCalls |-> <<[op |-> "index", id |-> doc_id,
                             document |-> document, raised |-> FALSE]>>,
              response |-> [status |-> 200,
                            body |-> [id |-> doc_id, title |-> req.title,
                                      category |-> req.category,
                                      status |-> "indexed",
                                      embedding_dimension |->
                                          document.embedding.dim]],
              index |-> index_document(idx, document)]

\* A slip: has_embedding looked up after the embedding was taken out.
ResponseDoc_AfterRemoval(document) ==
    LET response_doc == [k \in DOMAIN document \ {"embedding"} |-> document[k]]
    IN  response_doc @@ [has_embedding |-> "embedding" \in DOMAIN response_doc]

\* The document without its embedding, and has_embedding.
ResponseDoc(document) ==
    [k \in DOMAIN document \ {"embedding"} |-> document[k]]
        @@ [has_embedding |-> "embedding" \in DOMAIN document]

\* GET /documents/{doc_id}: the call made and the response.
GetOutcome(idx, doc_id, fault) ==
    LET got == es_get_document(idx, doc_id, fault)
        call == [op |-> "get", id |-> doc_id,
                 answer |-> ByIdAnswer(idx, doc_id, fault),
                 raised |-> got.raised]
    IN  [esCalls |-> <<call>>,
         response |-> IF got.raised
                      THEN Failure("Failed to get document: ", "backend")
                      ELSE IF got.document = None
                      THEN NotFound
                      ELSE [status |-> 200, body |-> ResponseDoc(got.document)]]

\* DELETE /documents/{doc_id}: the call made, the response and the index
\* afterwards.
DeleteOutcome(idx, doc_id, fault) ==
    LET deleted == es_delete_document(idx, doc_id, fault)
        call == [op |-> "delete", id |-> doc_id,
                 answer |-> ByIdAnswer(idx, doc_id, fault),
                 raised |-> deleted.raised]
    IN  [esCalls |-> <<call>>,
         response |-> IF deleted.raised
                      THEN Failure("Failed to delete document: ", "backend")
                      ELSE IF deleted.success
                      THEN [status |-> 200,
                            body |-> [id |-> doc_id, status |-> "deleted"]]
                      ELSE NotFound,
         index |-> deleted.index]

\* ------------------------------------------- requests served side by side
\* The tasks that serve requests at the same time.
Workers == {"w1", "w2"}

Idle == [pc |-> "idle"]

\* The requests served side by side.
WorkerRequests ==
    [endpoint : {"search"}, query : Queries, max_results : {MaxResultsBound},
     min_score : {0, 700},
     filters : {NoFilters,
                [present |-> TRUE,
                 entries |-> <<[field |-> "category", value |-> Scalar("ai")]>>]},
     search_type : {"vector", "hybrid"}]
    \cup [endpoint : {"search"}, query : {"q1"}, max_results : {0},
          min_score : {0}, filters : {NoFilters}, search_type : {"vector"}]
    \cup [endpoint : {"rag"}, query : Queries, max_context : {MaxResultsBound},
          include_sources : {TRUE}, min_score : {700}]

ValidRequest(req) ==
    IF req.endpoint = "search" THEN ValidSearchRequest(req)
    ELSE ValidRAGRequest(req)

FailurePrefix(req) ==
    IF req.endpoint = "search" THEN "Search failed: " ELSE "RAG query failed: "

\* A slip: the query's embedding kept in a module-level variable, which the
\* other task has written since.
QueryEmbedding_Global(ws, w) ==
    IF \E o \in DOMAIN ws : o /= w /\ "query_embedding" \in DOMAIN ws[o]
    THEN ws[CHOOSE o \in DOMAIN ws : o /= w /\ "query_embedding" \in DOMAIN ws[o]].query_embedding
    ELSE ws[w].query_embedding

\* query_embedding, a local of the handler's call.
QueryEmbedding(ws, w) == ws[w].query_embedding

\* A slip: the search run with the embedding of a fixed text.
HandlerSearch_FixedVector(idx, req, query_embedding) ==
    IF req.endpoint = "search"
    THEN SearchWith(idx, req, generate_embedding("q1"))
    ELSE vector_search(idx, generate_embedding("q1"), req.max_context,
                       req.min_score, NoFilters)

\* The search of a handler that has the query's embedding.
HandlerSearch(idx, req, query_embedding) ==
    IF req.endpoint = "search"
    THEN SearchWith(idx, req, query_embedding)
    ELSE vector_search(idx, query_embedding, req.max_context, req.min_score,
                       NoFilters)

\* The body of the handler's 200 answer from the results of its search.
HandlerAnswer(req, results) ==
    IF req.endpoint = "search"
    THEN [query |-> req.query,
          total_results |-> Len(results),
          search_type |-> req.search_type,
          results |-> FormatResults(results)]
    ELSE [original_query |-> req.query,
          enhanced_prompt |-> EnhancedPrompt(req.query, results),
          context_sources |-> ContextSources(results, req.include_sources)]

Replied(req, fault, embeds, searches, resp) ==
    [pc |-> "replied", request |-> req, fault |-> fault,
     embedCalls |-> embeds, esCalls |-> searches, response |-> resp]

\* What goes wrong with the embedding model's dimension lookup.
ModelFaults == {"none", "embedding"}

Unhealthy == [status |-> 503, detail |-> <<"Service unhealthy">>]

\* GET /health: the calls made and the response.
HealthOutcome(dimension, fault, model_fault) ==
    LET es_health == es_health_check(fault)
        call == [op |-> "health",
                 answer |-> IF fault = "backend" THEN "unavailable" ELSE "ok",
                 raised |-> es_health.raised]
    IN  IF es_health.raised
        THEN [esCalls |-> <<call>>, embedCalls |-> <<>>,
              response |-> Unhealthy]
        ELSE IF model_fault = "embedding"
        THEN [esCalls |-> <<call>>,
              embedCalls |-> <<[op |-> "get_embedding_dimension",
                                raised |-> TRUE]>>,
              response |-> Unhealthy]
        ELSE [esCalls |-> <<call>>,
              embedCalls |-> <<[op |-> "get_embedding_dimension",
                                raised |-> FALSE]>>,
              response |-> [status |-> 200,
                            body |-> [status |-> "healthy",
                                      elasticsearch |-> es_health.health,
                                      embedding_model |->
                                          [dimension |-> dimension]]]]

\* --------------------------------------------------------------- actions
NoRequest == [endpoint |-> "none"]

NoResponse == [status |-> 0]

\* The service has started on an index of documents embedded with the
\* configured dimension; EMBEDDING_MODEL names a model of that dimension
\* or, over a small index, of another.
Init ==
    /\ modelDimension \in ModelDimensions
    /\ index \in {idx \in SUBSET DocUniverse : Cardinality(idx) <= MaxDocs}
                 \cup {ExampleIndex}
    /\ modelDimension /= EmbeddingDimension => Cardinality(index) <= 1
    \* each of them as it was sent to POST /documents
    /\ added = [id \in DocIds(index) |->
                    LET d == CHOOSE d \in index : d.id = id
                    IN  [title |-> d.title, content |-> d.content]]
    /\ request = NoRequest
    /\ embedCalls = <<>>
    /\ esCalls = <<>>
    /\ response = NoResponse
    /\ workers = [w \in Workers |-> Idle]

\* POST /search
search_documents(req, fault) ==
    /\ request = NoRequest
    /\ request' = req
    /\ LET out == SearchOutcome(index, req, fault)
       IN  /\ embedCalls' = out.embedCalls
           /\ esCalls' = out.esCalls
           /\ response' = out.response
    /\ UNCHANGED <<index, added, modelDimension, workers>>

\* POST /rag-query
rag_enhanced_query(req, fault) ==
    /\ request = NoRequest
    /\ request' = req
    /\ LET out == RAGOutcome(index, req, fault)
       IN  /\ embedCalls' = out.embedCalls
           /\ esCalls' = out.esCalls
           /\ response' = out.response
    /\ UNCHANGED <<index, added, modelDimension, workers>>

\* POST /documents; the uuid4 drawn is an id no document has.
add_document(req, doc_id, fault) ==
    /\ request = NoRequest
    /\ doc_id \notin DocIds(index)
    /\ Cardinality(index) < MaxDocs
    /\ request' = req
    /\ LET out == AddOutcome(index, req, doc_id, fault)
       IN  /\ embedCalls' = out.embedCalls
           /\ esCalls' = out.esCalls
           /\ response' = out.response
           /\ index' = out.index
           /\ added' = IF out.response.status = 200
                       THEN [id \in DOMAIN added \cup {out.response.body.id} |->
                               IF id = out.response.body.id
                               THEN [title |-> req.title, content |-> req.content]
                               ELSE added[id]]
                       ELSE added
    /\ UNCHANGED <<modelDimension, workers>>

\* GET /documents/{doc_id}
get_document(doc_id, fault) ==
    /\ request = NoRequest
    /\ request' = [endpoint |-> "get", doc_id |-> doc_id]
    /\ LET out == GetOutcome(index, doc_id, fault)
       IN  /\ esCalls' = out.esCalls
           /\ response' = out.response
    /\ embedCalls' = <<>>
    /\ UNCHANGED <<index, added, modelDimension, workers>>

\* DELETE /documents/{doc_id}
delete_document(doc_id, fault) ==
    /\ request = NoRequest
    /\ request' = [endpoint |-> "delete", doc_id |-> doc_id]
    /\ LET out == DeleteOutcome(index, doc_id, fault)
       IN  /\ esCalls' = out.esCalls
           /\ response' = out.response
           /\ index' = out.index
           /\ added' = IF out.response.status = 200
                       THEN [id \in DOMAIN added \ {doc_id} |-> added[id]]
                       ELSE added
    /\ embedCalls' = <<>>
    /\ UNCHANGED <<modelDimension, workers>>

\* GET /health
health_check(fault, model_fault) ==
    /\ request = NoRequest
    /\ request' = [endpoint |-> "health"]
    /\ LET out == HealthOutcome(modelDimension, fault, model_fault)
       IN  /\ embedCalls' = out.embedCalls
           /\ esCalls' = out.esCalls
           /\ response' = out.response
    /\ UNCHANGED <<index, added, modelDimension, workers>>

\* The response is sent; nothing of the request is kept.
Respond ==
    /\ request /= NoRequest
    /\ request' = NoRequest
    /\ embedCalls' = <<>>
    /\ esCalls' = <<>>
    /\ response' = NoResponse
    /\ UNCHANGED <<index, added, modelDimension, workers>>

Next ==
    \/ \E req \in SearchRequests, fault \in Faults : search_documents(req, fault)
    \/ \E req \in RAGRequests, fault \in Faults : rag_enhanced_query(req, fault)
    \/ \E doc \in DocUniverse, fault \in Faults :
            add_document(DocumentRequest(doc), doc.id, fault)
    \/ \E doc_id \in RequestedIds, fault \in BackendFaults :
            get_document(doc_id, fault)
    \/ \E doc_id \in RequestedIds, fault \in BackendFaults :
            delete_document(doc_id, fault)
    \/ \E fault \in BackendFaults, model_fault \in ModelFaults :
            health_check(fault, model_fault)
    \/ Respond

Spec == Init /\ [][Next]_vars

\* A task takes a request: FastAPI validates the body and calls the handler.
Receive(w, req, fault) ==
    /\ workers[w] = Idle
    /\ workers' = [workers EXCEPT ![w] =
            IF ValidRequest(req)
            THEN [pc |-> "received", request |-> req, fault |-> fault]
            ELSE Replied(req, fault, <<>>, <<>>, Unprocessable)]
    /\ UNCHANGED <<index, added, modelDimension, request, embedCalls, esCalls,
                   response>>

\* embedding_model.generate_embedding(request.query) returns or raises.
Embed(w) ==
    /\ workers[w].pc = "received"
    /\ LET req == workers[w].request
           fault == workers[w].fault
       IN  workers' = [workers EXCEPT ![w] =
            IF fault = "embedding"
            THEN Replied(req, fault, <<[text |-> req.query, raised |-> TRUE]>>,
                         <<>>, Failure(FailurePrefix(req), "embedding"))
            ELSE [pc |-> "embedded", request |-> req, fault |-> fault,
                  query_embedding |-> generate_embedding(req.query),
                  embedCalls |-> <<[text |-> req.query, raised |-> FALSE,
                                   returned |-> generate_embedding(req.query)]>>]]
    /\ UNCHANGED <<index, added, modelDimension, request, embedCalls, esCalls,
                   response>>

\* es_client.vector_search / hybrid_search returns or raises.
Search(w) ==
    /\ workers[w].pc = "embedded"
    /\ LET req == workers[w].request
           fault == workers[w].fault
           r == HandlerSearch(index, req, QueryEmbedding(workers, w))
           error == SearchError(index, r.body, fault)
           call == [op |-> "search", body |-> r.body, size |-> r.size]
       IN  workers' = [workers EXCEPT ![w] =
            IF error /= "none"
            THEN Replied(req, fault, workers[w].embedCalls,
                         <<call @@ [raised |-> TRUE]>>,
                         Failure(FailurePrefix(req), error))
            ELSE [pc |-> "searched", request |-> req, fault |-> fault,
                  embedCalls |-> workers[w].embedCalls,
                  esCalls |-> <<call @@ [raised |-> FALSE, hits |-> r.hits]>>,
                  results |-> r.results]]
    /\ UNCHANGED <<index, added, modelDimension, request, embedCalls, esCalls,
                   response>>

\* The handler formats its results and returns.
Reply(w) ==
    /\ workers[w].pc = "searched"
    /\ workers' = [workers EXCEPT ![w] =
            Replied(workers[w].request, workers[w].fault,
                    workers[w].embedCalls, workers[w].esCalls,
                    [status |-> 200,
                     body |-> HandlerAnswer(workers[w].request,
                                            workers[w].results)])]
    /\ UNCHANGED <<index, added, modelDimension, request, embedCalls, esCalls,
                   response>>

\* The response is sent; the task is free again.
Finish(w) ==
    /\ workers[w].pc = "replied"
    /\ workers' = [workers EXCEPT ![w] = Idle]
    /\ UNCHANGED <<index, added, modelDimension, request, embedCalls, esCalls,
                   response>>

NextWorkers ==
    \/ \E w \in Workers, req \in WorkerRequests, fault \in Faults :
            Receive(w, req, fault)
    \/ \E w \in Workers : Embed(w)
    \/ \E w \in Workers : Search(w)
    \/ \E w \in Workers : Reply(w)
    \/ \E w \in Workers : Finish(w)

\* Search and RAG requests served side by side over an index nothing
\* writes to.
InitWorkers ==
    /\ modelDimension = EmbeddingDimension
    /\ index \in {ExampleIndex, {Doc4, Doc5}}
    /\ added = <<>>
    /\ request = NoRequest
    /\ embedCalls = <<>>
    /\ esCalls = <<>>
    /\ response = NoResponse
    /\ workers = [w \in Workers |-> Idle]

SpecWorkers == InitWorkers /\ [][NextWorkers]_vars

\* The service has started on the empty index create_index makes: every
\* document of the index is one a POST /documents of the run has put there.
InitFresh ==
    /\ modelDimension \in ModelDimensions
    /\ index = {}
    /\ added = <<>>
    /\ request = NoRequest
    /\ embedCalls = <<>>
    /\ esCalls = <<>>
    /\ response = NoResponse
    /\ workers = [w \in Workers |-> Idle]

SpecFresh == InitFresh /\ [][Next]_vars

\* ----------------------------------------------------------------- claims
\* The request was answered 200 by a search that took the kNN path
\* (search_type "vector", or any type but "hybrid").
KnnSearchAnswered ==
    /\ request.endpoint = "search"
    /\ request.search_type /= "hybrid"
    /\ response.status = 200

RagAnswered ==
    /\ request.endpoint = "rag"
    /\ response.status = 200

Reorderings(seq) ==
    {[i \in 1..Len(seq) |-> seq[p[i]]] : p \in Permutations(1..Len(seq))}

\* C1: for a filter map of two or more fields, the predicate sent to the
\* backend is the same for every iteration order of the map's entries.
C1_OrderIndependent ==
    (KnnSearchAnswered /\ Len(request.filters.entries) >= 2) =>
        \A entries \in Reorderings(request.filters.entries) :
            _build_filters(entries) = esCalls[1].body.knn.filter

\* The clauses of a predicate: itself when it is a single clause.
ClausesOf(pred) == IF pred.kind = "bool_must" THEN pred.must ELSE <<pred>>

\* What a filter entry asks of a document.
EntryHolds(entry, doc) ==
    IF entry.value.isList
    THEN \E i \in 1..Len(entry.value.items) :
            entry.value.items[i] \in FieldValues(doc, entry.field)
    ELSE entry.value.items[1] \in FieldValues(doc, entry.field)

\* C2: a non-empty filter map yields one clause per field, in the map's
\* order: term for a scalar, terms for a list, on that field with that value;
\* several clauses are the must of a bool, one clause stands alone; a
\* document satisfies the predicate iff it satisfies every entry.
C2_OnePredicatePerField ==
    (KnnSearchAnswered /\ Len(request.filters.entries) >= 1) =>
        LET entries == request.filters.entries
            pred == esCalls[1].body.knn.filter
            clauses == ClausesOf(pred)
        IN  /\ Len(clauses) = Len(entries)
            /\ (pred.kind = "bool_must") = (Len(entries) >= 2)
            /\ \A i \in 1..Len(entries) :
                /\ clauses[i].field = entries[i].field
                /\ clauses[i].value = entries[i].value
                /\ clauses[i].kind =
                     (IF entries[i].value.isList THEN "terms" ELSE "term")
            /\ \A doc \in DocUniverse :
                Matches(pred, doc) <=>
                    \A i \in 1..Len(entries) : EntryHolds(entries[i], doc)

C2_Witness ==
    /\ KnnSearchAnswered
    /\ Len(request.filters.entries) = 2
    /\ request.filters.entries[1].value.isList
    /\ ~request.filters.entries[2].value.isList
    /\ Len(response.body.results) = 1
    /\ Cardinality(index) = 3

\* C3: with an empty or absent filter map the kNN request carries no filter,
\* and no document of the index is kept from the candidates.
C3_NoFilterWhenEmpty ==
    /\ (KnnSearchAnswered /\ Len(request.filters.entries) = 0) =>
          /\ "filter" \notin DOMAIN esCalls[1].body.knn
          /\ Len(esCalls[1].hits) = Min(Cardinality(index), request.max_results)
    /\ RagAnswered =>
          /\ "filter" \notin DOMAIN esCalls[1].body.knn
          /\ Len(esCalls[1].hits) = Min(Cardinality(index), request.max_context)

C3_Witness ==
    /\ KnnSearchAnswered
    /\ request.filters.present
    /\ Len(request.filters.entries) = 0
    /\ Len(esCalls[1].hits) = 2

SearchAnswered ==
    /\ request.endpoint = "search"
    /\ response.status = 200

\* The index's document a result, a citation or a context section is of.
DocById(id) == CHOOSE d \in index : d.id = id

DocByTitle(title) == CHOOSE d \in index : d.title = title

\* C4 as stated: every returned content is at most 503 long and ends in
\* "..." iff the backend's content is longer than 500.
C4_EllipsisIffLong ==
    SearchAnswered =>
        \A i \in 1..Len(response.body.results) :
            LET out == response.body.results[i].content
                content == DocById(response.body.results[i].id).content
            IN  /\ StrLen(out) <= 503
                /\ EndsWithEllipsis(out) <=> StrLen(content) > 500

\* C4, amended: every returned content is at most 503 long; it is the
\* content's first 500 characters followed by "..." when the content is
\* longer than 500, and the content unchanged otherwise, so it ends in "..."
\* iff the content is longer than 500 or itself ends in "...".
C4_TruncatedContent ==
    SearchAnswered =>
        \A i \in 1..Len(response.body.results) :
            LET out == response.body.results[i].content
                content == DocById(response.body.results[i].id).content
            IN  /\ StrLen(out) <= 503
                /\ StrTake(out, 500) = StrTake(content, 500)
                /\ StrLen(content) > 500 => StrLen(out) = 503
                /\ StrLen(content) <= 500 => out = content
                /\ EndsWithEllipsis(out) <=>
                     (StrLen(content) > 500 \/ EndsWithEllipsis(content))

C4_Witness ==
    /\ SearchAnswered
    /\ request.search_type = "hybrid"
    /\ \E i, j \in 1..Len(response.body.results) :
        /\ StrLen(DocById(response.body.results[i].id).content) > 500
        /\ response.body.results[i].content = [x |-> 498, d |-> 5]
        /\ StrLen(DocById(response.body.results[j].id).content) <= 500
        /\ EndsWithEllipsis(response.body.results[j].content)

\* The context sections of a RAG answer (none in the no-context prompt).
SectionsOf(prompt) == IF Len(prompt) = 5 THEN prompt[2].sections ELSE <<>>

\* C5 as stated: every context section holds the first 800 characters of
\* its document's content and ends in "..." iff the content is longer
\* than 800.
C5_EllipsisIffLong ==
    RagAnswered =>
        LET sections == SectionsOf(response.body.enhanced_prompt)
        IN  \A i \in 1..Len(sections) :
                LET content == DocByTitle(sections[i].title).content
                IN  /\ StrTake(sections[i].text, 800) = StrTake(content, 800)
                    /\ EndsWithEllipsis(sections[i].text) <=> StrLen(content) > 800

\* C5, amended: every context section holds the first 800 characters of its
\* document's content, followed by "..." when the content is longer than 800
\* and by nothing otherwise, so it ends in "..." iff the content is longer
\* than 800 or itself ends in "...".
C5_ContextSection ==
    RagAnswered =>
        LET sections == SectionsOf(response.body.enhanced_prompt)
        IN  \A i \in 1..Len(sections) :
                LET content == DocByTitle(sections[i].title).content
                    text == sections[i].text
                IN  /\ StrTake(text, 800) = StrTake(content, 800)
                    /\ StrLen(content) > 800 => StrLen(text) = 803
                    /\ StrLen(content) <= 800 => text = content
                    /\ EndsWithEllipsis(text) <=>
                         (StrLen(content) > 800 \/ EndsWithEllipsis(content))

C5_Witness ==
    /\ RagAnswered
    /\ LET sections == SectionsOf(response.body.enhanced_prompt)
       IN  /\ Len(sections) = 2
           /\ \E i, j \in 1..2 :
               /\ StrLen(DocByTitle(sections[i].title).content) > 800
               /\ EndsWithEllipsis(sections[i].text)
               /\ StrLen(DocByTitle(sections[j].title).content) = 800
               /\ ~EndsWithEllipsis(sections[j].text)

\* C6 as stated: every citation's excerpt holds the first 200 characters of
\* its document's content and ends in "..." iff the content is longer
\* than 200.
C6_EllipsisIffLong ==
    RagAnswered =>
        \A i \in 1..Len(response.body.context_sources) :
            LET excerpt == response.body.context_sources[i].excerpt
                content == DocById(response.body.context_sources[i].id).content
            IN  /\ StrTake(excerpt, 200) = StrTake(content, 200)
                /\ EndsWithEllipsis(excerpt) <=> StrLen(content) > 200

\* C6, amended: every citation's excerpt is the first 200 characters of its
\* document's content followed by "..." when the content is longer than 200,
\* and the content unchanged otherwise, so it ends in "..." iff the content
\* is longer than 200 or itself ends in "...".
C6_Excerpt ==
    RagAnswered =>
        \A i \in 1..Len(response.body.context_sources) :
            LET excerpt == response.body.context_sources[i].excerpt
                content == DocById(response.body.context_sources[i].id).content
            IN  /\ StrTake(excerpt, 200) = StrTake(content, 200)
                /\ StrLen(content) > 200 => StrLen(excerpt) = 203
                /\ StrLen(content) <= 200 => excerpt = content
                /\ EndsWithEllipsis(excerpt) <=>
                     (StrLen(content) > 200 \/ EndsWithEllipsis(content))

C6_Witness ==
    /\ RagAnswered
    /\ Len(response.body.context_sources) = 2
    /\ \E i, j \in 1..2 :
        /\ DocById(response.body.context_sources[i].id).content = [x |-> 199, d |-> 2]
        /\ response.body.context_sources[i].excerpt = [x |-> 199, d |-> 4]
        /\ StrLen(DocById(response.body.context_sources[j].id).content) = 200
        /\ ~EndsWithEllipsis(response.body.context_sources[j].excerpt)

\* C7: when no hit reaches min_score, the prompt is the query line followed
\* by the fixed note and there are no citations, whatever include_sources is.
C7_NoContextPrompt ==
    (RagAnswered /\ \A i \in 1..Len(esCalls[1].hits) :
                        esCalls[1].hits[i]._score < request.min_score) =>
        /\ response.body.enhanced_prompt =
             << [lit |-> "Query: "], [lit |-> request.query],
                [lit |-> "\n\nNote: No relevant context found in the knowledge base."] >>
        /\ response.body.context_sources = <<>>

C7_Witness ==
    /\ RagAnswered
    /\ request.include_sources
    /\ Len(esCalls[1].hits) = 2
    /\ \A i \in 1..2 : esCalls[1].hits[i]._score < request.min_score
    /\ response.body.context_sources = <<>>

HybridAnswered ==
    /\ request.endpoint = "search"
    /\ request.search_type = "hybrid"
    /\ response.status = 200

\* textWeight * lexicalScore + vectorWeight * cosineSimilarity of a document
\* for a query, with the weights 0.3 and 0.7.
Fusion(query, doc) ==
    (3 * lexicalScore(query, doc)
     + 7 * cosineSimilarity(generate_embedding(query), doc.embedding)) \div 10

ReturnedIds == {response.body.results[i].id : i \in 1..Len(response.body.results)}

VectorPathAnswered == KnnSearchAnswered \/ RagAnswered

\* maxResults of the request on the kNN path.
RequestedMax ==
    IF request.endpoint = "rag" THEN request.max_context ELSE request.max_results

\* C9 as stated: the kNN request asks for at least 2 * maxResults candidates
\* and the min_score loop runs over that over-fetched candidate set.
C9_CutoffOverCandidates ==
    VectorPathAnswered =>
        /\ esCalls[1].body.knn.num_candidates >= 2 * RequestedMax
        /\ esCalls[1].hits = KnnCandidates(index, esCalls[1].body.knn)

\* C9, amended: the kNN request asks for 2 * maxResults candidates (20 for
\* 10) but for k = maxResults neighbours and size = maxResults hits, so the
\* min_score loop runs over the first maxResults candidates only.
C9_OverfetchButTopN ==
    VectorPathAnswered =>
        /\ esCalls[1].body.knn.num_candidates >= 2 * RequestedMax
        /\ RequestedMax = 10 => esCalls[1].body.knn.num_candidates >= 20
        /\ esCalls[1].body.knn.k = RequestedMax
        /\ esCalls[1].size = RequestedMax
        /\ esCalls[1].hits =
             Take(KnnCandidates(index, esCalls[1].body.knn), RequestedMax)

C9_Witness ==
    /\ KnnSearchAnswered
    /\ request.max_results = 10
    /\ esCalls[1].body.knn.num_candidates = 20
    /\ Len(esCalls[1].hits) = 3
    /\ Len(response.body.results) = 1

\* The ids the kNN path returned, in order.
VectorReturned ==
    IF request.endpoint = "rag"
    THEN LET sections == SectionsOf(response.body.enhanced_prompt)
         IN  [i \in 1..Len(sections) |-> DocByTitle(sections[i].title).id]
    ELSE [i \in 1..Len(response.body.results) |-> response.body.results[i].id]

\* The backend's candidates that reach min_score, in the backend's order.
Qualifying ==
    SelectSeq(KnnCandidates(index, esCalls[1].body.knn),
              LAMBDA hit : hit._score >= request.min_score)

\* C10: every result of a vector search scores at least min_score, none of
\* the first maxResults candidates that reach min_score is dropped, and at
\* most maxResults results are returned.
C10_CutoffAndCap ==
    VectorPathAnswered =>
        /\ Len(VectorReturned) <= RequestedMax
        /\ \A i \in 1..Len(VectorReturned) :
            KnnScore(generate_embedding(request.query),
                     DocById(VectorReturned[i])) >= request.min_score
        /\ request.endpoint = "search" =>
            \A i \in 1..Len(response.body.results) :
                response.body.results[i].score >= request.min_score
        /\ \A i \in 1..Min(Len(Qualifying), RequestedMax) :
            \E j \in 1..Len(VectorReturned) : VectorReturned[j] = Qualifying[i]._id

C10_Witness ==
    /\ KnnSearchAnswered
    /\ request.min_score = 700
    /\ Len(esCalls[1].hits) = 2
    /\ Len(response.body.results) = 2
    /\ response.body.results[2].score = 700
    /\ Cardinality(index) = 3

\* The ids of a sequence of hits or of results, in order.
HitIds(hits) == [i \in 1..Len(hits) |-> hits[i]._id]

ResultIds(results) == [i \in 1..Len(results) |-> results[i].id]

\* C11: the results of /search are hits of the backend in the order the
\* backend returned them, each with the backend's score, and total_results
\* is their number; five hits scored 0.9 to 0.5 with max_results 5 and
\* min_score 0.0 come back as five results in that order.
C11_BackendOrderKept ==
    SearchAnswered =>
        LET hits == esCalls[1].hits
            results == response.body.results
            kept == SelectSeq(hits, LAMBDA hit :
                        \E i \in 1..Len(results) : results[i].id = hit._id)
        IN  /\ response.body.total_results = Len(results)
            /\ ResultIds(results) = HitIds(kept)
            /\ \A i \in 1..Len(results) : results[i].score = kept[i]._score
            /\ (/\ index = ExampleIndex
                /\ request.query = "q1"
                /\ request.search_type /= "hybrid"
                /\ request.max_results = 5
                /\ request.min_score = 0)
               => /\ response.body.total_results = 5
                  /\ ResultIds(results) = <<"d1", "d2", "d3", "d7", "d6">>

C11_Witness ==
    /\ SearchAnswered
    /\ index = ExampleIndex
    /\ request.max_results = 5
    /\ [i \in 1..5 |-> esCalls[1].hits[i]._score] = <<900, 800, 700, 600, 500>>
    /\ response.body.total_results = 5

\* A search or RAG request with max_results outside 1..100, min_score
\* outside 0.0..1.0 or max_context outside 1..10.
OutOfRange ==
    \/ /\ request.endpoint = "search"
       /\ request.max_results \notin 1..100
    \/ /\ request.endpoint = "rag"
       /\ request.max_context \notin 1..10
    \/ /\ request.endpoint \in {"search", "rag"}
       /\ request.min_score \notin 0..1000

\* A search request with a filter value that is neither a scalar nor a list.
MalformedFilterValue ==
    /\ request.endpoint = "search"
    /\ \E i \in 1..Len(request.filters.entries) :
          "isDict" \in DOMAIN request.filters.entries[i].value

RejectedUncalled ==
    /\ response.status = 422
    /\ embedCalls = <<>>
    /\ esCalls = <<>>

\* C12: a search or RAG request with max_results, min_score or max_context
\* out of range, or with a malformed filter value, is answered with a
\* validation error and no embedding or backend call is made for it.
C12_InvalidRejectedUncalled ==
    (OutOfRange \/ MalformedFilterValue) => RejectedUncalled

\* The part of C12 the request models enforce: the three ranges.
C12_OutOfRangeRejected ==
    OutOfRange => RejectedUncalled

\* C13: DELETE of an id the index does not hold is answered 404 (the
\* client's delete_document having returned false without raising) and
\* leaves the index as it is; a backend that cannot be reached is answered
\* 500, never 404.
C13_DeleteMissingIs404 ==
    [][request'.endpoint = "delete" =>
        /\ Len(esCalls') = 1
        /\ esCalls'[1].answer = "unavailable" =>
              (response'.status = 500 /\ index' = index)
        /\ (esCalls'[1].answer /= "unavailable"
                /\ request'.doc_id \notin DocIds(index)) =>
              (response' = NotFound /\ ~esCalls'[1].raised /\ index' = index)
        /\ response'.status = 404 => request'.doc_id \notin DocIds(index)]_vars

C13_Witness ==
    /\ request.endpoint = "delete"
    /\ request.doc_id = "nonexistent-id"
    /\ esCalls[1].answer = "not_found"
    /\ response.status = 404
    /\ index /= {}

\* C14: GET of an id the index does not hold is answered 404, the client's
\* get_document having returned None without raising; a backend that cannot
\* be reached is answered 500, and only a missing id is answered 404.
C14_GetMissingIs404 ==
    request.endpoint = "get" =>
        /\ Len(esCalls) = 1
        /\ esCalls[1].answer = "unavailable" => response.status = 500
        /\ (esCalls[1].answer /= "unavailable"
                /\ request.doc_id \notin DocIds(index)) =>
              (response = NotFound /\ ~esCalls[1].raised)
        /\ response.status = 404 => request.doc_id \notin DocIds(index)

C14_Witness ==
    /\ request.endpoint = "get"
    /\ request.doc_id = "nonexistent-id"
    /\ esCalls[1].answer = "not_found"
    /\ response.status = 404
    /\ index /= {}

\* C15: over any sequence of add, get and delete, a document POST /documents
\* answered for with its id and status "indexed", and not deleted since, is
\* served by GET (the backend answering) with the title and the content it
\* was added with and has_embedding true, and DELETE of it is answered 200.
C15_AddedThenServed ==
    [][\A id \in DOMAIN added :
        /\ (/\ request' = [endpoint |-> "get", doc_id |-> id]
            /\ esCalls'[1].answer /= "unavailable") =>
              /\ response'.status = 200
              /\ response'.body.title = added[id].title
              /\ response'.body.content = added[id].content
              /\ response'.body.has_embedding = TRUE
        /\ (/\ request' = [endpoint |-> "delete", doc_id |-> id]
            /\ esCalls'[1].answer /= "unavailable") =>
              /\ response'.status = 200
              /\ id \notin DOMAIN added'
        /\ (request'.endpoint = "add" /\ response'.status = 200) =>
              /\ response'.body.status = "indexed"
              /\ response'.body.id \in DOMAIN added']_vars

\* MaxDocs documents were added one after the other and one of them is
\* served.
C15_Witness ==
    /\ request.endpoint = "get"
    /\ request.doc_id \in DOMAIN added
    /\ response.status = 200
    /\ response.body.has_embedding
    /\ response.body.title = added[request.doc_id].title
    /\ Cardinality(index) = MaxDocs

\* C16: no response carries an embedding: no result of /search and no
\* citation of /rag-query has an embedding field (the backend is not even
\* asked for it), and GET /documents/{doc_id} leaves the embedding out and
\* says has_embedding, true iff the stored document has one.
C16_NoEmbeddingInResponses ==
    /\ (request.endpoint \in {"search", "rag"} /\ Len(esCalls) > 0) =>
          "embedding" \notin esCalls[1].body._source
    /\ SearchAnswered =>
          \A i \in 1..Len(response.body.results) :
              "embedding" \notin DOMAIN response.body.results[i]
    /\ RagAnswered =>
          \A i \in 1..Len(response.body.context_sources) :
              "embedding" \notin DOMAIN response.body.context_sources[i]
    /\ (request.endpoint = "get" /\ response.status = 200) =>
          /\ "embedding" \notin DOMAIN response.body
          /\ response.body.has_embedding
                <=> "embedding" \in DOMAIN DocById(request.doc_id)
          /\ \A k \in DOMAIN DocById(request.doc_id) \ {"embedding"} :
                response.body[k] = DocById(request.doc_id)[k]
    /\ (request.endpoint \in {"add", "delete"} /\ response.status = 200) =>
          "embedding" \notin DOMAIN response.body

C16_Witness ==
    /\ request.endpoint = "get"
    /\ response.status = 200
    /\ "embedding" \in DOMAIN DocById(request.doc_id)
    /\ response.body.has_embedding
    /\ DOMAIN response.body =
          {"id", "title", "content", "category", "tags", "has_embedding"}

\* The request had a vector made whose length is not the configured
\* dimension.
MismatchedVectorMade ==
    /\ modelDimension /= EmbeddingDimension
    /\ request.endpoint \in {"search", "rag", "add"}
    /\ Len(embedCalls) > 0
    /\ ~embedCalls[1].raised

\* C17: a query vector or a document embedding whose length is not the
\* configured dimension is refused before any backend call is made, and so
\* every document of the index has an embedding of the configured dimension.
C17_MismatchRefusedUncalled ==
    /\ MismatchedVectorMade => (esCalls = <<>> /\ response.status /= 200)
    /\ \A d \in index : d.embedding.dim = EmbeddingDimension

\* The part of C17 the backend's mapping enforces: no document is indexed
\* with an embedding of another length, the backend refusing it.
C17_IndexedOfDimension ==
    /\ \A d \in index : d.embedding.dim = EmbeddingDimension
    /\ (MismatchedVectorMade /\ request.endpoint = "add") =>
          (esCalls[1].raised /\ response.status = 500)

\* The embedding call or the backend call of a search or RAG request raised.
CallRaised ==
    /\ request.endpoint \in {"search", "rag"}
    /\ \/ \E i \in 1..Len(embedCalls) : embedCalls[i].raised
       \/ \E i \in 1..Len(esCalls) : esCalls[i].raised

\* The one search a request asks for: kNN unless search_type is "hybrid".
AsksForKnn ==
    request.endpoint = "rag" \/ request.search_type /= "hybrid"

\* C18: when the embedding call or the backend call of a search or RAG
\* request raises, the request is answered with an error and no results;
\* nothing is called after the call that raised, and the only search tried
\* is the one of the requested type.
C18_FailureFailsWhole ==
    CallRaised =>
        /\ response.status = 500
        /\ "body" \notin DOMAIN response
        /\ Len(embedCalls) = 1
        /\ embedCalls[1].raised => esCalls = <<>>
        /\ Len(esCalls) <= 1
        /\ Len(esCalls) = 1 =>
              /\ esCalls[1].op = "search"
              /\ "knn" \in DOMAIN esCalls[1].body <=> AsksForKnn
              /\ "hits" \notin DOMAIN esCalls[1]

C18_Witness ==
    /\ CallRaised
    /\ request.endpoint = "search"
    /\ request.search_type = "hybrid"
    /\ Len(esCalls) = 1
    /\ esCalls[1].raised
    /\ Cardinality(index) = MaxDocs
    /\ response.status = 500

\* The kind of an error response: its HTTP status (the detail is the
\* message text).
ErrorKind(resp) == resp.status

\* The failures a search of the request's query can meet: each fault with
\* the request's filters, and a malformed filter map.
SearchFailures ==
    {out \in {SearchOutcome(index, [request EXCEPT !.filters = filters],
                            fault).response :
                 filters \in {request.filters} \cup MalformedFilterMaps,
                 fault \in Faults} :
        out.status /= 200}

\* C19: a failure of the embedding service, a backend that cannot be
\* reached and malformed filters are answered with errors of different
\* kinds: a failed search of another cause than the one at hand is not of
\* the kind of the error at hand.
C19_DistinctErrorKinds ==
    (request.endpoint = "search" /\ response.status = 500) =>
        \A other \in SearchFailures :
            other.detail /= response.detail =>
                ErrorKind(other) /= ErrorKind(response)

\* C20: with context documents in the prompt, context_sources has one
\* citation per context document, in their order, with the document's id,
\* title, category and score, when include_sources is true, and is empty
\* when it is false; the prompt is the same for both.
C20_OneCitationPerContextDoc ==
    (RagAnswered /\ Len(SectionsOf(response.body.enhanced_prompt)) > 0) =>
        LET docs == VectorReturned
            cites == response.body.context_sources
            other == RAGOutcome(index,
                        [request EXCEPT !.include_sources = ~@], "none")
        IN  /\ request.include_sources =>
                /\ Len(cites) = Len(docs)
                /\ \A i \in 1..Len(docs) :
                    /\ cites[i].id = docs[i]
                    /\ cites[i].title = DocById(docs[i]).title
                    /\ cites[i].category = DocById(docs[i]).category
                    /\ cites[i].score =
                          KnnScore(generate_embedding(request.query),
                                   DocById(docs[i]))
            /\ ~request.include_sources => cites = <<>>
            /\ other.response.body.enhanced_prompt
                  = response.body.enhanced_prompt
            /\ Len(other.response.body.context_sources) + Len(cites)
                  = Len(docs)

C20_Witness ==
    /\ RagAnswered
    /\ request.include_sources
    /\ Len(SectionsOf(response.body.enhanced_prompt)) = 2
    /\ Len(response.body.context_sources) = 2
    /\ response.body.context_sources[1].score
          > response.body.context_sources[2].score

\* The hits of the request's search that reach min_score: the context
\* documents of a RAG request.
ContextHits ==
    SelectSeq(esCalls[1].hits, LAMBDA hit : hit._score >= request.min_score)

\* C21: with context documents, the RAG prompt is the preamble, one section
\* per context document in their order, numbered 1..n, each "Context i:
\* [title]" and the content (its first 800 characters), the sections joined
\* by a blank line, then a blank line, "Query: <query>", a blank line and
\* the closing instruction.
C21_PromptTemplate ==
    (RagAnswered /\ Len(ContextHits) > 0) =>
        LET prompt == response.body.enhanced_prompt
        IN  /\ Len(prompt) = 5
            /\ prompt[1] = [lit |-> Preamble]
            /\ DOMAIN prompt[2] = {"sections", "sep"}
            /\ prompt[2].sep = "\n\n"
            /\ Len(prompt[2].sections) = Len(ContextHits)
            /\ \A i \in 1..Len(ContextHits) :
                LET section == prompt[2].sections[i]
                    source == ContextHits[i]._source
                IN  /\ section.i = i
                    /\ section.title = source.title
                    /\ StrTake(section.text, 800) = StrTake(source.content, 800)
            /\ prompt[3] = [lit |-> "\n\nQuery: "]
            /\ prompt[4] = [lit |-> request.query]
            /\ prompt[5] = [lit |-> Closing]

C21_Witness ==
    /\ RagAnswered
    /\ Len(ContextHits) = 2
    /\ Len(response.body.enhanced_prompt) = 5
    /\ response.body.enhanced_prompt[2].sections[2].i = 2
    /\ response.body.enhanced_prompt[2].sections[2].title
          = ContextHits[2]._source.title

\* The query vector a search body carries.
QueryVectorOf(body) ==
    IF "knn" \in DOMAIN body
    THEN body.knn.query_vector
    ELSE body.query.bool.should[2].script_score.query_vector

HasSearched(worker) ==
    "esCalls" \in DOMAIN worker /\ worker.esCalls /= <<>>

C23_OneCallEachNoRetry ==
    request.endpoint \in {"search", "rag"} =>
        /\ Len(embedCalls) <= 1
        /\ Len(esCalls) <= 1
        /\ \A i \in 1..Len(embedCalls) :
              embedCalls[i].raised =>
                  /\ esCalls = <<>>
                  /\ response.status = 500
                  /\ response.detail[2] = "embedding"
        /\ \A i \in 1..Len(esCalls) :
              esCalls[i].raised =>
                  /\ i = Len(esCalls)
                  /\ response.status = 500
                  /\ response.detail[2] \in {"backend", "bad_request"}
        /\ response.status = 200 =>
              (Len(embedCalls) = 1 /\ Len(esCalls) = 1)

C23_Witness ==
    /\ request.endpoint = "rag"
    /\ Len(embedCalls) = 1
    /\ Len(esCalls) = 1
    /\ esCalls[1].raised
    /\ response = Failure("RAG query failed: ", "backend")
    /\ Cardinality(index) = MaxDocs

\* What the request at hand would get with another search_type, the same
\* index and the same fault.
WithSearchType(search_type) ==
    SearchOutcome(index, [request EXCEPT !.search_type = search_type],
                  IF \E i \in 1..Len(embedCalls) : embedCalls[i].raised
                  THEN "embedding"
                  ELSE IF \E i \in 1..Len(esCalls) : esCalls[i].raised
                          /\ response.detail[2] = "backend"
                  THEN "backend"
                  ELSE "none")

\* C24: a "text" search makes the calls a "vector" search of the same
\* query, max_results, min_score and filters makes on the same index (the
\* same backend request) and is answered with the same results; only the
\* search_type echoed differs.
C24_TextAsVector ==
    (request.endpoint = "search" /\ request.search_type = "text") =>
        LET vector == WithSearchType("vector")
        IN  /\ embedCalls = vector.embedCalls
            /\ esCalls = vector.esCalls
            /\ response.status = vector.response.status
            /\ response.status = 200 =>
                /\ response.body.results = vector.response.body.results
                /\ response.body.total_results
                      = vector.response.body.total_results
                /\ response.body.query = vector.response.body.query
                /\ response.body.search_type = "text"
                /\ vector.response.body.search_type = "vector"

C24_Witness ==
    /\ request.endpoint = "search"
    /\ request.search_type = "text"
    /\ Len(request.filters.entries) = 2
    /\ response.status = 200
    /\ Len(response.body.results) = 1
    /\ Cardinality(index) = MaxDocs
    /\ "filter" \in DOMAIN esCalls[1].body.knn

\* C25: a hybrid search makes one backend call, whose query is the
\* should of the lexical match boosted 0.3 and of the cosine script
\* weighted 0.7 on the request's query and its vector, and it returns the
\* hits of that call, at most max_results of them, in the call's order.
C25_OneCombinedQuery ==
    HybridAnswered =>
        /\ Len(esCalls) = 1
        /\ LET should == esCalls[1].body.query.bool.should
           IN  /\ Len(should) = 2
               /\ should[1].multi_match.query = request.query
               /\ should[1].multi_match.boost = 3
               /\ should[2].script_score.vector_weight = 7
               /\ should[2].script_score.query_vector
                     = generate_embedding(request.query)
        /\ esCalls[1].size = request.max_results
        /\ Len(response.body.results) <= request.max_results
        /\ ResultIds(response.body.results) = HitIds(esCalls[1].hits)
        /\ \A i \in 1..Len(response.body.results) - 1 :
              response.body.results[i].score
                  >= response.body.results[i + 1].score

C25_Witness ==
    /\ HybridAnswered
    /\ Cardinality(index) = 3
    /\ request.max_results = 2
    /\ request.min_score = 0
    /\ Len(response.body.results) = 2
    /\ response.body.results[1].score > response.body.results[2].score

\* What a request gets when it is served alone on an index.
ServedAlone(idx, req, fault) ==
    IF req.endpoint = "search"
    THEN SearchOutcome(idx, req, fault)
    ELSE RAGOutcome(idx, req, fault)

\* C26: however the steps of search and RAG requests served side by side
\* interleave, over an index nothing writes to, each request is answered as
\* it would be alone and each handler works on its own query, filters,
\* embedding and results.
C26_ServedAsAlone ==
    \A w \in Workers :
        LET worker == workers[w]
        IN  /\ "query_embedding" \in DOMAIN worker =>
                  worker.query_embedding
                      = generate_embedding(worker.request.query)
            /\ HasSearched(worker) =>
                  /\ worker.esCalls[1].body
                        = ServedAlone(index, worker.request,
                                      worker.fault).esCalls[1].body
                  /\ QueryVectorOf(worker.esCalls[1].body).dir
                        = worker.request.query
            /\ "results" \in DOMAIN worker =>
                  worker.results
                      = HandlerSearch(index, worker.request,
                            generate_embedding(worker.request.query)).results
            /\ worker.pc = "replied" =>
                  worker.response
                      = ServedAlone(index, worker.request,
                                    worker.fault).response

\* Two requests for different queries: one has its answer while the other
\* is between its embedding call and its search.
C26_Witness ==
    /\ workers["w1"].pc = "embedded"
    /\ workers["w1"].request.query = "q1"
    /\ workers["w2"].pc = "replied"
    /\ workers["w2"].request.query = "q2"
    /\ workers["w2"].response.status = 200
    /\ workers["w2"].request.endpoint = "rag"
    /\ Len(workers["w2"].response.body.context_sources) = 2

\* C27: a search whose search_type is neither "vector" nor "hybrid", one of
\* the three names or not, is not refused for it: with max_results and
\* min_score in range it makes the calls of a "vector" search, and it is
\* answered as that search is, with its own search_type echoed.
C27_OtherTypesServedAsVector ==
    (/\ request.endpoint = "search"
     /\ request.search_type \notin {"vector", "hybrid"}
     /\ ~OutOfRange) =>
        LET vector == WithSearchType("vector")
        IN  /\ response.status /= 422
            /\ Len(embedCalls) = 1
            /\ esCalls = vector.esCalls
            /\ \A i \in 1..Len(esCalls) : "knn" \in DOMAIN esCalls[i].body
            /\ response.status = vector.response.status
            /\ response.status = 200 =>
                /\ response.body.search_type = request.search_type
                /\ response.body.results = vector.response.body.results

C27_Witness ==
    /\ request.endpoint = "search"
    /\ request.search_type = "fuzzy"
    /\ response.status = 200
    /\ response.body.search_type = "fuzzy"
    /\ Len(response.body.results) = 2
    /\ "knn" \in DOMAIN esCalls[1].body

\* What the request at hand would get with other filters, the same index
\* and nothing raising.
WithFilters(filters) ==
    SearchOutcome(index, [request EXCEPT !.filters = filters], "none")

\* C28: the filters of a hybrid search have no effect: the backend query
\* has no filter, and with any other filters, or none, the request makes
\* the same backend call and is answered with the same results.
C28_HybridIgnoresFilters ==
    HybridAnswered =>
        /\ DOMAIN esCalls[1].body = {"query", "min_score", "_source"}
        /\ DOMAIN esCalls[1].body.query.bool = {"should"}
        /\ \A filters \in FilterMaps \cup MalformedFilterMaps :
              /\ WithFilters(filters).esCalls = esCalls
              /\ WithFilters(filters).response = response
        /\ \A doc \in index :
              Fusion(request.query, doc) >= request.min_score =>
                  (\/ doc.id \in ReturnedIds
                   \/ Len(response.body.results) = request.max_results)

\* A hybrid search filtered on a category returns a document of another.
C28_Witness ==
    /\ HybridAnswered
    /\ Len(request.filters.entries) = 1
    /\ request.filters.entries[1] = [field |-> "category", value |-> Scalar("ai")]
    /\ \E i \in 1..Len(response.body.results) :
          response.body.results[i].category = "db"

\* C29: add_document embeds before it indexes: when the embedding call
\* raises, no backend call is made, the index stays as it is and the answer
\* is 500; the index call carries the embedding that was generated; on
\* success the id answered is the id the document was indexed under and a
\* get by that id then finds the document.
C29_EmbedThenIndex ==
    [][request'.endpoint = "add" =>
        /\ Len(embedCalls') = 1
        /\ embedCalls'[1].raised =>
              /\ esCalls' = <<>>
              /\ index' = index
              /\ response'.status = 500
        /\ Len(esCalls') <= 1
        /\ \A i \in 1..Len(esCalls') :
              /\ esCalls'[i].op = "index"
              /\ esCalls'[i].document.embedding
                    = generate_embedding(embedCalls'[1].text)
        /\ response'.status /= 200 => index' = index
        /\ response'.status = 200 =>
              LET got == GetOutcome(index', response'.body.id, "none").response
              IN  /\ esCalls'[1].id = response'.body.id
                  /\ esCalls'[1].document.id = response'.body.id
                  /\ response'.body.id \notin DocIds(index)
                  /\ got.status = 200
                  /\ got.body.id = response'.body.id
                  /\ got.body.title = request'.title
                  /\ got.body.content = request'.content]_vars

C29_Witness ==
    /\ request.endpoint = "add"
    /\ response.status = 200
    /\ response.body.status = "indexed"
    /\ response.body.id \in DocIds(index)
    /\ esCalls[1].id = response.body.id
    /\ Cardinality(index) = 2

\* C30: the client's health_check does not raise: with the backend out of
\* reach it returns a map of one entry, "error", and /health then answers
\* 200 with status "healthy"; /health answers 503 only when the lookup of
\* the embedding model's dimension raises.
C30_HealthyThoughUnreachable ==
    request.endpoint = "health" =>
        /\ Len(esCalls) = 1
        /\ ~esCalls[1].raised
        /\ response.status \in {200, 503}
        /\ response.status = 503 <=>
              (\E i \in 1..Len(embedCalls) : embedCalls[i].raised)
        /\ response.status = 200 =>
              /\ response.body.status = "healthy"
              /\ esCalls[1].answer = "unavailable" <=>
                    DOMAIN response.body.elasticsearch = {"error"}

C30_Witness ==
    /\ request.endpoint = "health"
    /\ esCalls[1].answer = "unavailable"
    /\ response.status = 200
    /\ response.body.status = "healthy"
    /\ DOMAIN response.body.elasticsearch = {"error"}

====
